---- MODULE Spec2Model ----
(***************************************************************************)
(* A model of the KFP SDK command line front-end:                          *)
(*   sdk/python/kfp/cli/compile.py  (dsl_compile, main, the collector      *)
(*                                   context, _compile_pipeline_function)  *)
(*   sdk/python/kfp/cli/cli.py      (the top-level group callback)         *)
(*                                                                         *)
(* Spec    is one run of compile.main(): the click command dsl_compile     *)
(*         wrapped by main's "except Exception".  The module named by --py *)
(*         and Compiler.compile are the environment: the module may invoke *)
(*         the decorator hook, rebind the hook, change sys.path and raise; *)
(*         the compiler may return or raise.                               *)
(* SpecCli is one invocation of the cli group callback.                    *)
(***************************************************************************)
EXTENDS Integers, Sequences, FiniteSets, TLC

VARIABLES
    pc,                  \* position of the run of main()
    py,                  \* --py, a path as a sequence of components
    function_name,       \* --function (None when not given)
    pipeline_parameters, \* --pipeline-parameters, a JSON text as tokens (None when not given)
    handler,             \* pipeline_context.pipeline_decorator_handler
    old_handler,         \* PipelineCollectorContext.old_handler
    pipeline_funcs,      \* the list returned by __enter__
    parsed_parameters,   \* local of dsl_compile
    sys_path,            \* sys.path
    exc,                 \* the exception in flight (NoExc when none)
    compile_calls,       \* calls received by Compiler.compile
    log,                 \* records written by logging.error
    stderr,              \* messages echoed with err=True
    exit_code,           \* exit status of the process (-1 before it ends)
    handler0,            \* history: the hook before dsl_compile was called
    path0,               \* history: sys.path before dsl_compile was called
    hook_calls,          \* history: every invocation of the decorator hook
    mod_path_op,         \* history: what the imported module did to sys.path
    steps,               \* history: the steps of dsl_compile taken so far
    show_completion,     \* cli: --show-completion
    install_completion,  \* cli: --install-completion
    invoked_subcommand,  \* cli: ctx.invoked_subcommand
    ctx_obj,             \* cli: ctx.obj
    clients,             \* cli: Client instances created
    echoed,              \* cli: lines written by click.echo
    shell_writes,        \* cli: text appended to shell start-up files
    cli_pc               \* cli: position of the group callback

vars == <<pc, py, function_name, pipeline_parameters, handler, old_handler,
          pipeline_funcs, parsed_parameters, sys_path, exc, compile_calls,
          log, stderr, exit_code, handler0, path0, hook_calls, mod_path_op,
          steps, show_completion, install_completion, invoked_subcommand,
          ctx_obj, clients, echoed, shell_writes, cli_pc>>

compile_vars == <<pc, py, function_name, pipeline_parameters, handler,
                  old_handler, pipeline_funcs, parsed_parameters, sys_path,
                  exc, compile_calls, log, stderr, exit_code, handler0,
                  path0, hook_calls, mod_path_op, steps>>

cli_vars == <<show_completion, install_completion, invoked_subcommand,
              ctx_obj, clients, echoed, shell_writes, cli_pc>>

(***************************************************************************)
(* Bounds                                                                  *)
(***************************************************************************)
\* how many times the decorator hook is invoked in one run
MaxHookCalls == 2

(***************************************************************************)
(* Python values                                                           *)
(***************************************************************************)
\* Python's None where a string is expected
None == "None"

\* "not x" for an Optional[str]
Falsy(x) == x = None \/ x = ""

\* the decorated functions a module can define: two of them share __name__
Functions ==
    { [id |-> 1, name |-> "f"], [id |-> 2, name |-> "g"], [id |-> 3, name |-> "f"] }

\* the value None where a function is expected
NoFunc == [id |-> 0, name |-> None]

NoExc == [type |-> "None", msg |-> "", arg |-> <<>>, code |-> 0]

Exception(type, msg, arg) == [type |-> type, msg |-> msg, arg |-> arg, code |-> 1]

\* a main that catches json.JSONDecodeError only
IsExceptionJsonOnly(e) == e.type = "JSONDecodeError"

\* SystemExit derives from BaseException, every other type here from Exception
IsException(e) == e.type \notin {"None", "SystemExit"}

\* what executing the module named by --py can raise
ModuleExceptions ==
    { Exception("ImportError", "No module named pipe", <<>>),
      [type |-> "SystemExit", msg |-> "", arg |-> <<>>, code |-> 3] }

\* what Compiler.compile can raise
CompilerExceptions == { Exception("TypeError", "type check failed", <<>>) }

(***************************************************************************)
(* os.path on paths held as sequences of components                        *)
(***************************************************************************)
dirname(p) == SubSeq(p, 1, Len(p) - 1)

PyFiles == { <<"work", "pipe.py">>, <<"pipe.py">> }

\* sys.path of the interpreter before the command runs
InitialSysPath == << <<"usr", "lib", "site-packages">> >>

\* the entry a module adds to sys.path
ModuleDir == <<"work", "lib">>

(***************************************************************************)
(* json.loads on a text held as a sequence of tokens.  "a" and "b" are     *)
(* string literals, "1" a number.  A value is [kind, lit, items]; the      *)
(* items of a dict are [key, val] with distinct keys (a repeated key keeps  *)
(* its position and takes the last value, as a Python dict does).          *)
(***************************************************************************)
StringToks == {"a", "b"}

ScalarKind(tok) ==
    IF tok \in StringToks THEN "str"
    ELSE IF tok = "1" THEN "int"
    ELSE IF tok \in {"true", "false"} THEN "bool"
    ELSE IF tok = "null" THEN "NoneType"
    ELSE "error"

Scalar(tok) == [kind |-> ScalarKind(tok), lit |-> tok, items |-> <<>>]

EmptyDict == [kind |-> "dict", lit |-> "", items |-> <<>>]

ParseFail == [ok |-> FALSE, val |-> Scalar("null"), next |-> 0]

TokAt(t, i) == IF i \in 1..Len(t) THEN t[i] ELSE "EOF"

\* d[key] = val on the items of a dict
DictSet(items, key, val) ==
    IF \E i \in 1..Len(items) : items[i].key = key
    THEN [i \in 1..Len(items) |->
            IF items[i].key = key THEN [key |-> key, val |-> val] ELSE items[i]]
    ELSE Append(items, [key |-> key, val |-> val])

RECURSIVE ParseValue(_, _)
RECURSIVE ParseElements(_, _, _)
RECURSIVE ParseMembers(_, _, _)

ParseElements(t, i, acc) ==
    LET v == ParseValue(t, i) IN
    IF ~v.ok THEN ParseFail
    ELSE IF TokAt(t, v.next) = ","
         THEN ParseElements(t, v.next + 1, Append(acc, v.val))
    ELSE IF TokAt(t, v.next) = "]"
         THEN [ok |-> TRUE,
               val |-> [kind |-> "list", lit |-> "", items |-> Append(acc, v.val)],
               next |-> v.next + 1]
    ELSE ParseFail

ParseMembers(t, i, acc) ==
    IF TokAt(t, i) \notin StringToks \/ TokAt(t, i + 1) # ":" THEN ParseFail
    ELSE LET v == ParseValue(t, i + 2) IN
         IF ~v.ok THEN ParseFail
         ELSE IF TokAt(t, v.next) = ","
              THEN ParseMembers(t, v.next + 1, DictSet(acc, t[i], v.val))
         ELSE IF TokAt(t, v.next) = "}"
              THEN [ok |-> TRUE,
                    val |-> [kind |-> "dict", lit |-> "",
                             items |-> DictSet(acc, t[i], v.val)],
                    next |-> v.next + 1]
         ELSE ParseFail

ParseValue(t, i) ==
    LET tok == TokAt(t, i) IN
    IF ScalarKind(tok) # "error"
    THEN [ok |-> TRUE, val |-> Scalar(tok), next |-> i + 1]
    ELSE IF tok = "["
    THEN IF TokAt(t, i + 1) = "]"
         THEN [ok |-> TRUE, val |-> [kind |-> "list", lit |-> "", items |-> <<>>],
               next |-> i + 2]
         ELSE ParseElements(t, i + 1, <<>>)
    ELSE IF tok = "{"
    THEN IF TokAt(t, i + 1) = "}"
         THEN [ok |-> TRUE, val |-> EmptyDict, next |-> i + 2]
         ELSE ParseMembers(t, i + 1, <<>>)
    ELSE ParseFail

\* json.loads: the whole text must be one value; ok = FALSE is JSONDecodeError
json_loads(t) ==
    LET r == ParseValue(t, 1) IN
    IF r.ok /\ r.next = Len(t) + 1 THEN r ELSE ParseFail

\* the --pipeline-parameters texts tried
JsonTexts ==
    { <<"{", "}">>,
      <<"{", "a", ":", "1", "}">>,
      <<"{", "a", ":", "1", ",", "b", ":", "null", "}">>,
      <<"{", "a", ":", "1", ",", "a", ":", "true", "}">>,
      <<"{", "a", ":", "[", "1", "]", "}">>,
      <<"[", "1", ",", "a", "]">>,
      <<"a">>,
      <<"1">>,
      <<"true">>,
      <<"null">>,
      <<>>,
      <<"{", "a", ":", "1">>,
      <<"{", "a", "}">>,
      <<"{", "1", ":", "1", "}">>,
      <<"[", "1", ",", "]">>,
      <<"1", "1">> }

\* --pipeline-parameters not given
NoText == <<"None">>

Malformed(text) == text # NoText /\ ~json_loads(text).ok

(***************************************************************************)
(* compile.py                                                              *)
(***************************************************************************)
MsgRequired == "A function with @dsl.pipeline decorator is required in the py file."

MsgMultiple == "There are multiple pipelines: %s. Please specify --function."

MsgNotExist == "The function \"%s\" does not exist. Did you forget @dsl.pipeline decoration?"

MsgJson == "Failed to parse --pipeline-parameters argument: %s"

\* [x.__name__ for x in pipeline_funcs]
func_names(funcs) == [i \in 1..Len(funcs) |-> funcs[i].name]

\* the last function of that name instead of the first
LastNamed(funcs, name) ==
    LET hits == {i \in 1..Len(funcs) : funcs[i].name = name} IN
    IF hits = {} THEN NoFunc
    ELSE funcs[CHOOSE i \in hits : \A j \in hits : i >= j]

\* next((x for x in pipeline_funcs if x.__name__ == function_name), None)
FirstNamed(funcs, name) ==
    LET hits == {i \in 1..Len(funcs) : funcs[i].name = name} IN
    IF hits = {} THEN NoFunc
    ELSE funcs[CHOOSE i \in hits : \A j \in hits : i <= j]

\* without the check for several candidates: the first one is compiled
compile_pipeline_function_no_ambiguity(funcs, name) ==
    IF Len(funcs) = 0
    THEN [exc |-> Exception("ValueError", MsgRequired, <<>>), func |-> NoFunc]
    ELSE IF ~Falsy(name)
    THEN LET pipeline_func == FirstNamed(funcs, name) IN
         IF pipeline_func = NoFunc
         THEN [exc |-> Exception("ValueError", MsgNotExist, <<name>>),
               func |-> NoFunc]
         ELSE [exc |-> NoExc, func |-> pipeline_func]
    ELSE [exc |-> NoExc, func |-> funcs[1]]

\* with the name looked up ahead of the check for an empty list
compile_pipeline_function_lookup_first(funcs, name) ==
    IF ~Falsy(name) /\ FirstNamed(funcs, name) = NoFunc
    THEN [exc |-> Exception("ValueError", MsgNotExist, <<name>>), func |-> NoFunc]
    ELSE IF Len(funcs) = 0
    THEN [exc |-> Exception("ValueError", MsgRequired, <<>>), func |-> NoFunc]
    ELSE IF Len(funcs) > 1 /\ Falsy(name)
    THEN [exc |-> Exception("ValueError", MsgMultiple, func_names(funcs)),
          func |-> NoFunc]
    ELSE IF ~Falsy(name)
    THEN [exc |-> NoExc, func |-> FirstNamed(funcs, name)]
    ELSE [exc |-> NoExc, func |-> funcs[1]]

\* _compile_pipeline_function up to the call of Compiler.compile:
\* the exception it raises, or the function it passes on
compile_pipeline_function(funcs, name) ==
    IF Len(funcs) = 0
    THEN [exc |-> Exception("ValueError", MsgRequired, <<>>), func |-> NoFunc]
    ELSE IF Len(funcs) > 1 /\ Falsy(name)
    THEN [exc |-> Exception("ValueError", MsgMultiple, func_names(funcs)),
          func |-> NoFunc]
    ELSE IF ~Falsy(name)
    THEN LET pipeline_func == FirstNamed(funcs, name) IN
         IF pipeline_func = NoFunc
         THEN [exc |-> Exception("ValueError", MsgNotExist, <<name>>),
               func |-> NoFunc]
         ELSE [exc |-> NoExc, func |-> pipeline_func]
    ELSE [exc |-> NoExc, func |-> funcs[1]]

\* a collector that puts the newest function first
add_pipeline_prepend(funcs, func) == [funcs |-> <<func>> \o funcs, ret |-> func]

\* the closure add_pipeline of PipelineCollectorContext.__enter__
add_pipeline(funcs, func) == [funcs |-> Append(funcs, func), ret |-> func]

\* an __exit__ that leaves the hook as it finds it
exit_handler_keep(saved, current) == current

\* PipelineCollectorContext.__exit__: the value the hook is set to
exit_handler(saved, current) == saved

\* sys.path.insert(0, entry)
path_insert0(path, entry) == <<entry>> \o path

\* a finally clause that removes nothing
del_path0_skip(path) == path

\* del sys.path[0]
del_path0(path) == Tail(path)

\* what the imported module may do to sys.path
ModulePathOps == {"insert0", "append", "pop0"}

ApplyPathOp(op, path) ==
    IF op = "insert0" THEN path_insert0(path, ModuleDir)
    ELSE IF op = "append" THEN Append(path, ModuleDir)
    ELSE IF op = "pop0" THEN Tail(path)
    ELSE path

Init ==
    /\ pc = "start"
    /\ py \in PyFiles
    /\ function_name \in {None, "", "f", "g", "h"}
    /\ pipeline_parameters \in JsonTexts \cup {NoText}
    /\ handler \in {"None", "outer_handler"}
    /\ handler0 = handler
    /\ old_handler = "unset"
    /\ pipeline_funcs = <<>>
    /\ parsed_parameters = EmptyDict
    /\ sys_path = InitialSysPath
    /\ path0 = sys_path
    /\ exc = NoExc
    /\ compile_calls = <<>>
    /\ log = <<>>
    /\ stderr = <<>>
    /\ exit_code = -1
    /\ hook_calls = <<>>
    /\ mod_path_op = "none"
    /\ steps = <<>>
    /\ show_completion = None
    /\ install_completion = None
    /\ invoked_subcommand = None
    /\ ctx_obj = <<>>
    /\ clients = <<>>
    /\ echoed = <<>>
    /\ shell_writes = <<>>
    /\ cli_pc = "idle"

\* main calls dsl_compile: sys.path.insert, __enter__, and __import__ begins
DslCompileBegin ==
    /\ pc = "start"
    /\ sys_path' = path_insert0(sys_path, dirname(py))
    /\ pipeline_funcs' = <<>>
    /\ old_handler' = handler
    /\ handler' = "add_pipeline"
    /\ steps' = Append(steps, "import")
    /\ pc' = "import"
    /\ UNCHANGED <<py, function_name, pipeline_parameters, parsed_parameters,
                   exc, compile_calls, log, stderr, exit_code, handler0, path0,
                   hook_calls, mod_path_op>>
    /\ UNCHANGED cli_vars

\* a @dsl.pipeline decoration runs: the hook currently registered is invoked
\* on func, by the module during the import or by pipeline code later
Decorate(func) ==
    /\ pc \in {"import", "compile"}
    /\ Len(hook_calls) < MaxHookCalls
    /\ IF handler = "add_pipeline"
       THEN LET r == add_pipeline(pipeline_funcs, func) IN
            /\ pipeline_funcs' = r.funcs
            /\ hook_calls' = Append(hook_calls,
                   [func |-> func, via |-> handler, during |-> pc, ret |-> r.ret])
       ELSE /\ pipeline_funcs' = pipeline_funcs
            /\ hook_calls' = Append(hook_calls,
                   [func |-> func, via |-> handler, during |-> pc, ret |-> NoFunc])
    /\ UNCHANGED <<pc, py, function_name, pipeline_parameters, handler,
                   old_handler, parsed_parameters, sys_path, exc, compile_calls,
                   log, stderr, exit_code, handler0, path0, mod_path_op, steps>>
    /\ UNCHANGED cli_vars

\* the imported module registers a hook of its own
ModuleSetHandler ==
    /\ pc = "import"
    /\ handler = "add_pipeline"
    /\ handler' = "module_handler"
    /\ UNCHANGED <<pc, py, function_name, pipeline_parameters, old_handler,
                   pipeline_funcs, parsed_parameters, sys_path, exc,
                   compile_calls, log, stderr, exit_code, handler0, path0,
                   hook_calls, mod_path_op, steps>>
    /\ UNCHANGED cli_vars

\* the imported module changes sys.path (at most once in a run)
ModulePathOp(op) ==
    /\ pc = "import"
    /\ mod_path_op = "none"
    /\ mod_path_op' = op
    /\ sys_path' = ApplyPathOp(op, sys_path)
    /\ UNCHANGED <<pc, py, function_name, pipeline_parameters, handler,
                   old_handler, pipeline_funcs, parsed_parameters, exc,
                   compile_calls, log, stderr, exit_code, handler0, path0,
                   hook_calls, steps>>
    /\ UNCHANGED cli_vars

\* __import__ returns
ImportReturn ==
    /\ pc = "import"
    /\ pc' = "ctx_exit"
    /\ UNCHANGED <<py, function_name, pipeline_parameters, handler,
                   old_handler, pipeline_funcs, parsed_parameters, sys_path,
                   exc, compile_calls, log, stderr, exit_code, handler0, path0,
                   hook_calls, mod_path_op, steps>>
    /\ UNCHANGED cli_vars

\* __import__ raises
ImportRaise(e) ==
    /\ pc = "import"
    /\ exc' = e
    /\ pc' = "ctx_exit"
    /\ UNCHANGED <<py, function_name, pipeline_parameters, handler,
                   old_handler, pipeline_funcs, parsed_parameters, sys_path,
                   compile_calls, log, stderr, exit_code, handler0, path0,
                   hook_calls, mod_path_op, steps>>
    /\ UNCHANGED cli_vars

\* an __exit__ that returns True and so swallows the exception of the import
ContextExitSwallow ==
    /\ pc = "ctx_exit"
    /\ handler' = exit_handler(old_handler, handler)
    /\ steps' = Append(steps, "restore")
    /\ pc' = "parse"
    /\ UNCHANGED <<py, function_name, pipeline_parameters, old_handler,
                   pipeline_funcs, parsed_parameters, sys_path, exc,
                   compile_calls, log, stderr, exit_code, handler0, path0,
                   hook_calls, mod_path_op>>
    /\ UNCHANGED cli_vars

\* PipelineCollectorContext.__exit__; it returns None, so an exception in
\* flight goes on to the finally clause
ContextExit ==
    /\ pc = "ctx_exit"
    /\ handler' = exit_handler(old_handler, handler)
    /\ steps' = Append(steps, "restore")
    /\ pc' = IF exc = NoExc THEN "parse" ELSE "finally"
    /\ UNCHANGED <<py, function_name, pipeline_parameters, old_handler,
                   pipeline_funcs, parsed_parameters, sys_path, exc,
                   compile_calls, log, stderr, exit_code, handler0, path0,
                   hook_calls, mod_path_op>>
    /\ UNCHANGED cli_vars

\* the inner try: json.loads of --pipeline-parameters, {} when it is None
ParseParameters ==
    /\ pc = "parse"
    /\ steps' = Append(steps, "json")
    /\ IF pipeline_parameters = NoText
       THEN /\ parsed_parameters' = EmptyDict
            /\ pc' = "select"
            /\ UNCHANGED <<log, exc>>
       ELSE LET r == json_loads(pipeline_parameters) IN
            IF r.ok
            THEN /\ parsed_parameters' = r.val
                 /\ pc' = "select"
                 /\ UNCHANGED <<log, exc>>
            ELSE /\ log' = Append(log, [msg |-> MsgJson, arg |-> pipeline_parameters])
                 /\ exc' = Exception("JSONDecodeError", "Expecting value", <<>>)
                 /\ pc' = "finally"
                 /\ UNCHANGED parsed_parameters
    /\ UNCHANGED <<py, function_name, pipeline_parameters, handler,
                   old_handler, pipeline_funcs, sys_path, compile_calls,
                   stderr, exit_code, handler0, path0, hook_calls,
                   mod_path_op>>
    /\ UNCHANGED cli_vars

\* _compile_pipeline_function: raise, or call Compiler.compile
CompilePipelineFunction ==
    /\ pc = "select"
    /\ steps' = Append(steps, "select")
    /\ LET r == compile_pipeline_function(pipeline_funcs, function_name) IN
       IF r.exc # NoExc
       THEN /\ exc' = r.exc
            /\ pc' = "finally"
            /\ UNCHANGED compile_calls
       ELSE /\ compile_calls' = Append(compile_calls,
                   [pipeline_func |-> r.func,
                    pipeline_parameters |-> parsed_parameters,
                    handler |-> handler])
            /\ pc' = "compile"
            /\ UNCHANGED exc
    /\ UNCHANGED <<py, function_name, pipeline_parameters, handler,
                   old_handler, pipeline_funcs, parsed_parameters, sys_path,
                   log, stderr, exit_code, handler0, path0, hook_calls,
                   mod_path_op>>
    /\ UNCHANGED cli_vars

\* Compiler.compile returns
CompilerReturn ==
    /\ pc = "compile"
    /\ steps' = Append(steps, "compile")
    /\ pc' = "finally"
    /\ UNCHANGED <<py, function_name, pipeline_parameters, handler,
                   old_handler, pipeline_funcs, parsed_parameters, sys_path,
                   exc, compile_calls, log, stderr, exit_code, handler0, path0,
                   hook_calls, mod_path_op>>
    /\ UNCHANGED cli_vars

\* Compiler.compile raises
CompilerRaise(e) ==
    /\ pc = "compile"
    /\ steps' = Append(steps, "compile")
    /\ exc' = e
    /\ pc' = "finally"
    /\ UNCHANGED <<py, function_name, pipeline_parameters, handler,
                   old_handler, pipeline_funcs, parsed_parameters, sys_path,
                   compile_calls, log, stderr, exit_code, handler0, path0,
                   hook_calls, mod_path_op>>
    /\ UNCHANGED cli_vars

\* the finally clause of dsl_compile; without an exception the click command
\* then ends the process with status 0
Finally ==
    /\ pc = "finally"
    /\ sys_path' = del_path0(sys_path)
    /\ IF exc = NoExc
       THEN /\ exit_code' = 0
            /\ pc' = "done"
       ELSE /\ exit_code' = exit_code
            /\ pc' = "main"
    /\ UNCHANGED <<py, function_name, pipeline_parameters, handler,
                   old_handler, pipeline_funcs, parsed_parameters, exc,
                   compile_calls, log, stderr, handler0, path0, hook_calls,
                   mod_path_op, steps>>
    /\ UNCHANGED cli_vars

\* main: "except Exception" echoes str(e) to stderr and exits with 1;
\* SystemExit is not an Exception and ends the process with its own code
MainExcept ==
    /\ pc = "main"
    /\ IF IsException(exc)
       THEN /\ stderr' = Append(stderr, [msg |-> exc.msg, arg |-> exc.arg])
            /\ exit_code' = 1
       ELSE /\ stderr' = stderr
            /\ exit_code' = exc.code
    /\ pc' = "done"
    /\ UNCHANGED <<py, function_name, pipeline_parameters, handler,
                   old_handler, pipeline_funcs, parsed_parameters, sys_path,
                   exc, compile_calls, log, handler0, path0, hook_calls,
                   mod_path_op, steps>>
    /\ UNCHANGED cli_vars

Next ==
    \/ DslCompileBegin
    \/ \E func \in Functions : Decorate(func)
    \/ ModuleSetHandler
    \/ \E op \in ModulePathOps : ModulePathOp(op)
    \/ ImportReturn
    \/ \E e \in ModuleExceptions : ImportRaise(e)
    \/ ContextExit
    \/ ParseParameters
    \/ CompilePipelineFunction
    \/ CompilerReturn
    \/ \E e \in CompilerExceptions : CompilerRaise(e)
    \/ Finally
    \/ MainExcept

Spec == Init /\ [][Next]_vars

TypeOK ==
    /\ pc \in {"start", "import", "ctx_exit", "parse", "select", "compile",
               "finally", "main", "done"}
    /\ handler \in {"None", "outer_handler", "add_pipeline", "module_handler"}
    /\ Len(compile_calls) <= 1
    /\ Len(sys_path) >= 1 \/ pc \in {"done", "main"}

(***************************************************************************)
(* cli.py                                                                  *)
(***************************************************************************)
\* the names of the commands in COMMANDS['client'] and COMMANDS['no_client']
ClientCommandNames == {"run", "recurring-run", "experiment", "pipeline"}

NoClientCommandNames == {"diagnose_me", "component"}

PROGRAM_NAME == "kfp"

SHELL_FILES ==
    [shell \in {"bash", "zsh", "fish"} |->
        IF shell = "bash" THEN <<".bashrc">>
        ELSE IF shell = "zsh" THEN <<".zshrc">>
        ELSE <<".config", "fish", "completions", PROGRAM_NAME \o ".fish">>]

Shells == DOMAIN SHELL_FILES

\* f'{command.name}s'
Plural(name) == name \o "s"

\* the command names without their plural aliases
client_commands_singular == ClientCommandNames

\* the set client_commands built in cli()
client_commands ==
    ClientCommandNames \cup {Plural(name) : name \in ClientCommandNames}

\* what ctx.invoked_subcommand can be: None without a subcommand, else the
\* name typed, which AliasedPluralsGroup accepts in singular or plural
Subcommands ==
    LET names == ClientCommandNames \cup NoClientCommandNames IN
    {None} \cup names \cup {Plural(name) : name \in names}

create_completion(shell) ==
    "eval \"$(_KFP_COMPLETE=" \o shell \o "_source " \o PROGRAM_NAME \o ")\""

\* _install_completion: the file appended to and the text written
install_completion_write(shell) ==
    [file |-> <<"~">> \o SHELL_FILES[shell],
     text |-> "\n" \o create_completion(shell) \o "\n"]

\* the defaults of --namespace and --output
DefaultNamespace == "kubeflow"

DefaultOutput == "table"

\* ctx.obj[key] = value
ObjSet(obj, key, value) == [k \in DOMAIN obj \cup {key} |-> IF k = key THEN value ELSE obj[k]]

InitCli ==
    /\ pc = "idle"
    /\ py = <<"pipe.py">>
    /\ function_name = None
    /\ pipeline_parameters = NoText
    /\ handler = "None"
    /\ handler0 = handler
    /\ old_handler = "unset"
    /\ pipeline_funcs = <<>>
    /\ parsed_parameters = EmptyDict
    /\ sys_path = InitialSysPath
    /\ path0 = sys_path
    /\ exc = NoExc
    /\ compile_calls = <<>>
    /\ log = <<>>
    /\ stderr = <<>>
    /\ exit_code = -1
    /\ hook_calls = <<>>
    /\ mod_path_op = "none"
    /\ steps = <<>>
    /\ show_completion \in {None} \cup Shells
    /\ install_completion \in {None} \cup Shells
    /\ invoked_subcommand \in Subcommands
    /\ ctx_obj = <<>>
    /\ clients = <<>>
    /\ echoed = <<>>
    /\ shell_writes = <<>>
    /\ cli_pc = "start"

\* the group callback cli()
cli ==
    /\ cli_pc = "start"
    /\ cli_pc' = "done"
    /\ IF show_completion # None
       THEN /\ echoed' = Append(echoed, create_completion(show_completion))
            /\ UNCHANGED <<shell_writes, ctx_obj, clients>>
       ELSE IF install_completion # None
       THEN /\ shell_writes' = Append(shell_writes,
                                      install_completion_write(install_completion))
            /\ UNCHANGED <<echoed, ctx_obj, clients>>
       ELSE IF invoked_subcommand \notin client_commands
       THEN UNCHANGED <<echoed, shell_writes, ctx_obj, clients>>
       ELSE /\ clients' = Append(clients, [namespace |-> DefaultNamespace])
            /\ ctx_obj' = ObjSet(ObjSet(ObjSet(ctx_obj, "client", "Client"),
                                        "namespace", DefaultNamespace),
                                 "output", DefaultOutput)
            /\ UNCHANGED <<echoed, shell_writes>>
    /\ UNCHANGED <<show_completion, install_completion, invoked_subcommand>>
    /\ UNCHANGED compile_vars

NextCli == cli

SpecCli == InitCli /\ [][NextCli]_vars

(***************************************************************************)
(* Properties of a run of main()                                           *)
(***************************************************************************)
InSeq(x, seq) == \E i \in 1..Len(seq) : seq[i] = x

IsPrefix(p, q) == Len(p) <= Len(q) /\ \A i \in 1..Len(p) : p[i] = q[i]

\* _compile_pipeline_function has been entered
Selecting == InSeq("select", steps)

\* json.loads has been entered
Parsing == InSeq("json", steps)

MissingDetected == Selecting /\ pipeline_funcs = <<>>

AmbiguousDetected == Selecting /\ Len(pipeline_funcs) > 1 /\ Falsy(function_name)

MalformedDetected == Parsing /\ Malformed(pipeline_parameters)

\* C1: when a missing pipeline function, an ambiguous pipeline function or
\* malformed JSON is detected, Compiler.compile is never called, and the run
\* ends with the message of that error on stderr and exit code 1.
C1_ErrorsExitOne ==
    /\ (MissingDetected \/ AmbiguousDetected \/ MalformedDetected)
          => compile_calls = <<>>
    /\ (pc = "done" /\ MissingDetected)
          => exit_code = 1 /\ stderr = <<[msg |-> MsgRequired, arg |-> <<>>]>>
    /\ (pc = "done" /\ AmbiguousDetected)
          => /\ exit_code = 1
             /\ stderr = <<[msg |-> MsgMultiple, arg |-> func_names(pipeline_funcs)]>>
    /\ (pc = "done" /\ MalformedDetected)
          => /\ exit_code = 1
             /\ stderr = <<[msg |-> exc.msg, arg |-> <<>>]>>
             /\ exc.type = "JSONDecodeError"
             /\ log = <<[msg |-> MsgJson, arg |-> pipeline_parameters]>>

C1_Witness ==
    /\ pc = "done"
    /\ AmbiguousDetected
    /\ exit_code = 1
    /\ Len(stderr) = 1

\* the hook has been restored by __exit__
AfterContext == pc \in {"parse", "select", "compile", "finally", "main", "done"}

\* C2: inside the context the hook is the collecting callback (or what the
\* module itself has put in its place) and the value from before entry is
\* saved; __exit__ puts that value back on the normal and on the raising exit
\* of the import, and from then on the hook equals its value from before the
\* call.
C2_HookRestored ==
    /\ [](pc \in {"import", "ctx_exit"}
            => /\ old_handler = handler0
               /\ handler \in {"add_pipeline", "module_handler"})
    /\ [](AfterContext => handler = handler0)
    /\ [][pc = "start" => handler' = "add_pipeline" /\ old_handler' = handler]_vars
    /\ [][pc = "ctx_exit" => handler' = old_handler]_vars

C2_Witness ==
    /\ pc = "done"
    /\ exc.type = "SystemExit"
    /\ handler0 = "outer_handler"
    /\ handler = "outer_handler"
    /\ \E i \in 1..Len(hook_calls) : hook_calls[i].via = "module_handler"

\* Compiler.compile has been called
Dispatched == pc = "compile" \/ InSeq("compile", steps)

\* C3: with more than one collected function and no function name the error
\* names all candidates and Compiler.compile is not called; a run that does not
\* raise before the dispatch calls Compiler.compile exactly once, with one
\* function of the collected list.
C3_AmbiguityResolved ==
    /\ AmbiguousDetected
          => /\ exc = Exception("ValueError", MsgMultiple, func_names(pipeline_funcs))
             /\ compile_calls = <<>>
    /\ Len(compile_calls) = IF Dispatched THEN 1 ELSE 0
    /\ (pc = "done" /\ exc.type \in {"None", "TypeError"}) => Dispatched
    /\ \A i \in 1..Len(compile_calls) :
          InSeq(compile_calls[i].pipeline_func, pipeline_funcs)

C3_Witness ==
    /\ pc = "done"
    /\ Len(pipeline_funcs) = 2
    /\ function_name = "g"
    /\ Len(compile_calls) = 1
    /\ compile_calls[1].pipeline_func.name = "g"

\* the invocations of the collecting callback made while the context is active
CollectorCalls ==
    SelectSeq(hook_calls,
              LAMBDA c : c.via = "add_pipeline" /\ c.during = "import")

\* C5: the collected list is, in order, the functions the collecting hook was
\* invoked on while the context was active; each invocation returns its
\* function; invocations of the hook after the exit add nothing.
C5_DiscoveryOrder ==
    /\ pipeline_funcs = [i \in 1..Len(CollectorCalls) |-> CollectorCalls[i].func]
    /\ \A i \in 1..Len(hook_calls) :
          hook_calls[i].via = "add_pipeline" => hook_calls[i].ret = hook_calls[i].func
    /\ \A i \in 1..Len(hook_calls) :
          hook_calls[i].during = "compile" => hook_calls[i].via # "add_pipeline"

C5_Witness ==
    /\ Len(hook_calls) = 2
    /\ hook_calls[1].during = "import"
    /\ hook_calls[1].via = "add_pipeline"
    /\ hook_calls[2].during = "compile"
    /\ pipeline_funcs = <<hook_calls[1].func>>

\* C6: with a function name, the function compiled is the first of the
\* collected list with that __name__, and when the non-empty list has none the
\* "does not exist" error is raised and nothing is compiled; without a name
\* and with one collected function, that function is compiled.
C6_SelectionRule ==
    /\ \A c \in 1..Len(compile_calls) :
          IF ~Falsy(function_name)
          THEN \E i \in 1..Len(pipeline_funcs) :
                  /\ pipeline_funcs[i] = compile_calls[c].pipeline_func
                  /\ pipeline_funcs[i].name = function_name
                  /\ \A j \in 1..(i - 1) : pipeline_funcs[j].name # function_name
          ELSE /\ Len(pipeline_funcs) = 1
               /\ compile_calls[c].pipeline_func = pipeline_funcs[1]
    /\ (Selecting /\ ~Falsy(function_name) /\ pipeline_funcs # <<>>
            /\ \A i \in 1..Len(pipeline_funcs) : pipeline_funcs[i].name # function_name)
          => /\ exc = Exception("ValueError", MsgNotExist, <<function_name>>)
             /\ compile_calls = <<>>
    /\ (Selecting /\ Falsy(function_name) /\ Len(pipeline_funcs) = 1)
          => Len(compile_calls) = 1

C6_Witness ==
    /\ function_name = "f"
    /\ Len(pipeline_funcs) = 2
    /\ pipeline_funcs[1].id = 3
    /\ pipeline_funcs[2].id = 1
    /\ Len(compile_calls) = 1
    /\ compile_calls[1].pipeline_func.id = 3

\* C7: with nothing collected the "is required" error is raised whatever the
\* function name, and the "does not exist" error occurs only with a non-empty
\* collected list.
C7_RequiredFirst ==
    /\ MissingDetected => exc = Exception("ValueError", MsgRequired, <<>>)
    /\ exc.msg = MsgNotExist => pipeline_funcs # <<>>

C7_Witness ==
    /\ pc = "done"
    /\ function_name = "h"
    /\ pipeline_funcs = <<>>
    /\ stderr = <<[msg |-> MsgRequired, arg |-> <<>>]>>

StepOrder == <<"import", "restore", "json", "select", "compile">>

\* C8: the steps of dsl_compile are taken in the order import, hook
\* restoration, JSON parsing, selection, Compiler.compile, and a failing step
\* is the last one taken; Compiler.compile is called with the hook restored,
\* a failed import is reported without parsing the JSON, and malformed JSON is
\* reported even when the pipeline function is missing or ambiguous.
C8_StepOrder ==
    /\ IsPrefix(steps, StepOrder)
    /\ exc.type \in {"ImportError", "SystemExit"}
          => IsPrefix(steps, <<"import", "restore">>) /\ log = <<>>
    /\ exc.type = "JSONDecodeError" => steps = <<"import", "restore", "json">>
    /\ exc.type = "ValueError" => steps = <<"import", "restore", "json", "select">>
    /\ pc = "compile" => handler = handler0
    /\ \A i \in 1..Len(compile_calls) : compile_calls[i].handler = handler0
    /\ MalformedDetected => exc.type = "JSONDecodeError"

C8_Witness ==
    /\ pc = "done"
    /\ Malformed(pipeline_parameters)
    /\ Len(pipeline_funcs) = 2
    /\ function_name = None
    /\ exc.type = "JSONDecodeError"
    /\ exit_code = 1

\* C4: the pipeline_parameters passed to Compiler.compile is a mapping for
\* every --pipeline-parameters text that parses as JSON, and the empty mapping
\* when the option is omitted.
C4_ParametersAreMapping ==
    \A i \in 1..Len(compile_calls) :
        /\ compile_calls[i].pipeline_parameters.kind = "dict"
        /\ pipeline_parameters = NoText
              => compile_calls[i].pipeline_parameters = EmptyDict

\* C10 as stated: after the call sys.path has the entries it had before, for
\* every imported module.
C10_SysPathUnchanged == pc \in {"main", "done"} => sys_path = path0

\* sys.path as the body of the try statement leaves it
PathInTry == ApplyPathOp(mod_path_op, path_insert0(path0, dirname(py)))

\* C10 amended: on every exit path the finally clause removes the entry at
\* index 0; when the imported module leaves sys.path alone that entry is the
\* directory of the --py file and sys.path ends as it was before the call.
C10_SysPathRestoredWhenUntouched ==
    /\ pc \in {"main", "done"} => sys_path = Tail(PathInTry)
    /\ (pc \in {"main", "done"} /\ mod_path_op = "none") => sys_path = path0

C10_Witness ==
    /\ pc = "done"
    /\ mod_path_op = "none"
    /\ exc.type = "TypeError"
    /\ dirname(py) = <<"work">>
    /\ sys_path = path0

(***************************************************************************)
(* Properties of the cli group callback                                    *)
(***************************************************************************)
\* no completion option was given and the subcommand is a client command,
\* in singular or plural
WantsClient ==
    /\ show_completion = None
    /\ install_completion = None
    /\ \E name \in ClientCommandNames :
          invoked_subcommand = name \/ invoked_subcommand = name \o "s"

\* C9: a Client is created, and ctx.obj gets client, namespace and output,
\* exactly when no completion option is given and the subcommand is a client
\* command in singular or plural; otherwise ctx.obj stays empty.  With
\* --show-completion the statement is echoed and no shell file is written.
C9_ClientOnlyForClientCommands ==
    cli_pc = "done" =>
        /\ Len(clients) = IF WantsClient THEN 1 ELSE 0
        /\ DOMAIN ctx_obj = IF WantsClient THEN {"client", "namespace", "output"} ELSE {}
        /\ show_completion # None
              => /\ echoed = <<create_completion(show_completion)>>
                 /\ shell_writes = <<>>
        /\ show_completion = None => echoed = <<>>
        /\ (show_completion = None /\ install_completion # None)
              => Len(shell_writes) = 1

C9_Witness ==
    /\ cli_pc = "done"
    /\ invoked_subcommand = "pipelines"
    /\ Len(clients) = 1
    /\ "client" \in DOMAIN ctx_obj

====
